---- MODULE Spec2Model ----
(***************************************************************************)
(* The three repair scripts of ai-code-typer as state machines:            *)
(*   check_braces.py        the brace scan over the lines of a file        *)
(*   fix_app_context.py     literal search-and-replace of a broken block   *)
(*   restore_app_context.py replacement of two fixed lines of a file       *)
(* A text is a sequence of one-character strings.  `file` is the decoded   *)
(* text of the file the running script opens.  Every script is run up to   *)
(* MaxRuns times in a row on the file the previous run left behind.        *)
(***************************************************************************)
EXTENDS Integers, Sequences, FiniteSets, TLC

(* Bounds of the model. *)
MaxFileLen == 6
MaxLiveLen == 5
MaxRuns == 2
MaxSegs == 3
MaxTail == 4

VARIABLES
  file,        \* text of the file on disk
  lines,       \* check_braces / restore_app_context: the list `lines`
  content,     \* fix_app_context: the string `content`
  stack,       \* check_braces: the list `stack`
  i, j,        \* check_braces: the loop indices (0-based, as enumerate gives them)
  output,      \* what the running script has printed so far
  pc,          \* position of the running script
  run,         \* number of runs started
  prevOutput,  \* history: what the previous run printed
  matched,     \* history: number of '}' that popped the stack in this run
  visited,     \* history: the (i, j) the scan has visited in this run
  startFile,   \* history: text of the file when this run started
  writes       \* history: number of times this run has written the file

vars == <<file, lines, content, stack, i, j, output, pc, run, prevOutput,
          matched, visited, startFile, writes>>

(***************************************************************************)
(* Text helpers                                                            *)
(***************************************************************************)
Min(S) == CHOOSE x \in S : \A y \in S : x <= y
Max(S) == CHOOSE x \in S : \A y \in S : y <= x

\* The items of a list of texts one after the other (by halves, so that a
\* list of some hundred lines does not nest some hundred evaluations).
RECURSIVE Flatten(_)
Flatten(ls) ==
  IF ls = <<>> THEN <<>>
  ELSE IF Len(ls) = 1 THEN ls[1]
  ELSE LET h == Len(ls) \div 2
       IN  Flatten(SubSeq(ls, 1, h)) \o Flatten(SubSeq(ls, h + 1, Len(ls)))

\* f.readlines(): the lines in order, each keeping its "\n"; the last line
\* has none when the text does not end in one.  A text with a "\n" before
\* its last character is cut after one (the first in its second half, or
\* else its last) and the lines of the two parts are joined.
RECURSIVE readlines(_)
readlines(text) ==
  LET inner == {e \in 1..(Len(text) - 1) : text[e] = "\n"}
      upper == {e \in inner : 2 * e >= Len(text)}
      cut == IF upper # {} THEN Min(upper) ELSE Max(inner)
  IN  IF text = <<>> THEN <<>>
      ELSE IF inner = {} THEN <<text>>
      ELSE readlines(SubSeq(text, 1, cut)) \o
           readlines(SubSeq(text, cut + 1, Len(text)))

\* f.writelines(ls): the items written one after the other, nothing added.
writelines(ls) == Flatten(ls)

(***************************************************************************)
(* check_braces.py                                                         *)
(***************************************************************************)
\* "{", "}", the line terminator, and " " for any other character.
Alphabet == {"{", "}", " ", "\n"}

Texts(n) == UNION {[1..m -> Alphabet] : m \in 0..n}

\* stack = []
NewStackStale == stack
NewStack == <<>>

\* (i + 1, j + 1)
Position(ii, jj) == <<ii + 1, jj + 1>>

\* stack.append(...)
Push(stk, pos) == Append(stk, pos)

\* not stack
IsEmptyNever(stk) == FALSE
IsEmpty(stk) == stk = <<>>

\* stack.pop()
PopOldest(stk) == Tail(stk)
PopAll(stk) == <<>>
PopNone(stk) == stk
Pop(stk) == SubSeq(stk, 1, Len(stk) - 1)

\* print(f"Extra closing brace at line {i + 1}, col {j + 1}")
ExtraClosingMsgZeroBased(ii, jj) == <<"extra", ii + 1, jj>>
ExtraClosingMsg(ii, jj) == <<"extra", ii + 1, jj + 1>>

\* print(f"Unclosed brace at line {item[0]}, col {item[1]}")
UnclosedMsg(item) == <<"unclosed", item[1], item[2]>>

\* The final if/else: the count and one line per item of the stack, bottom
\* first, or "Braces are balanced."
FinalReportTopFirst(stk) ==
  IF stk # <<>>
  THEN <<(<<"count", Len(stk)>>)>> \o
       [k \in 1..Len(stk) |-> UnclosedMsg(stk[Len(stk) + 1 - k])]
  ELSE <<(<<"balanced">>)>>
FinalReport(stk) ==
  IF stk # <<>>
  THEN <<(<<"count", Len(stk)>>)>> \o [k \in 1..Len(stk) |-> UnclosedMsg(stk[k])]
  ELSE <<(<<"balanced">>)>>

\* The report the printed lines render.
IsExtra(m) == m[1] = "extra"
IsUnclosed(m) == m[1] = "unclosed"
extraClosing(out) ==
  LET ms == SelectSeq(out, IsExtra)
  IN  [k \in 1..Len(ms) |-> <<ms[k][2], ms[k][3]>>]
unclosed(out) ==
  LET ms == SelectSeq(out, IsUnclosed)
  IN  [k \in 1..Len(ms) |-> <<ms[k][2], ms[k][3]>>]
balanced(out) == \E k \in 1..Len(out) : out[k] = <<"balanced">>

InitBraces ==
  /\ file \in Texts(MaxFileLen)
  /\ lines = <<>>
  /\ content = <<>>
  /\ stack = <<>>
  /\ i = 0
  /\ j = 0
  /\ output = <<>>
  /\ pc = "start"
  /\ run = 0
  /\ prevOutput = <<>>
  /\ matched = 0
  /\ visited = <<>>
  /\ startFile = file
  /\ writes = 0

\* with open(...) as f: lines = f.readlines(); stack = []; the loops begin.
Start ==
  /\ pc \in {"start", "done"}
  /\ run < MaxRuns
  /\ run' = run + 1
  /\ lines' = readlines(file)
  /\ stack' = NewStack
  /\ i' = 0
  /\ j' = 0
  /\ prevOutput' = output
  /\ output' = <<>>
  /\ matched' = 0
  /\ visited' = <<>>
  /\ startFile' = file
  /\ writes' = 0
  /\ pc' = "scan"
  /\ UNCHANGED <<file, content>>

InLine == pc = "scan" /\ i < Len(lines) /\ j < Len(lines[i + 1])
char == lines[i + 1][j + 1]

\* if char == '{': stack.append((i + 1, j + 1))
ScanOpen ==
  /\ InLine
  /\ char = "{"
  /\ stack' = Push(stack, Position(i, j))
  /\ j' = j + 1
  /\ visited' = Append(visited, <<i, j>>)
  /\ UNCHANGED <<file, lines, content, i, output, pc, run, prevOutput, matched,
                 startFile, writes>>

\* elif char == '}': report an extra closing brace, or pop.  list.pop()
\* raises IndexError on an empty list, which ends the script.
ScanClose ==
  /\ InLine
  /\ char = "}"
  /\ visited' = Append(visited, <<i, j>>)
  /\ IF IsEmpty(stack)
     THEN /\ output' = Append(output, ExtraClosingMsg(i, j))
          /\ j' = j + 1
          /\ UNCHANGED <<stack, matched, pc>>
     ELSE IF Len(stack) = 0
     THEN /\ pc' = "error"
          /\ UNCHANGED <<stack, matched, output, j>>
     ELSE /\ stack' = Pop(stack)
          /\ matched' = matched + 1
          /\ j' = j + 1
          /\ UNCHANGED <<output, pc>>
  /\ UNCHANGED <<file, lines, content, i, run, prevOutput, startFile, writes>>

\* Any other character: neither branch is taken.
ScanOther ==
  /\ InLine
  /\ char \notin {"{", "}"}
  /\ j' = j + 1
  /\ visited' = Append(visited, <<i, j>>)
  /\ UNCHANGED <<file, lines, content, stack, i, output, pc, run, prevOutput,
                 matched, startFile, writes>>

\* The inner loop is exhausted: the outer loop takes the next line.
EndOfLine ==
  /\ pc = "scan"
  /\ i < Len(lines)
  /\ j = Len(lines[i + 1])
  /\ i' = i + 1
  /\ j' = 0
  /\ UNCHANGED <<file, lines, content, stack, output, pc, run, prevOutput,
                 matched, visited, startFile, writes>>

\* The outer loop is exhausted: the final if/else prints the verdict.
Report ==
  /\ pc = "scan"
  /\ i = Len(lines)
  /\ output' = output \o FinalReport(stack)
  /\ pc' = "done"
  /\ UNCHANGED <<file, lines, content, stack, i, j, run, prevOutput, matched,
                 visited, startFile, writes>>

NextBraces == Start \/ ScanOpen \/ ScanClose \/ ScanOther \/ EndOfLine \/ Report

SpecBraces == InitBraces /\ [][NextBraces]_vars

\* The script runs to completion once started: nothing suspends it.
InitLive == InitBraces /\ Len(file) <= MaxLiveLen
LiveBraces == InitLive /\ [][NextBraces]_vars /\ WF_vars(NextBraces)

(***************************************************************************)
(* Properties of check_braces.py                                           *)
(***************************************************************************)
CountChar(text, c) == Cardinality({k \in 1..Len(text) : text[k] = c})

\* The 1-based line and column of the k-th character of a text.
LineOf(text, k) == 1 + Cardinality({e \in 1..(k - 1) : text[e] = "\n"})
ColOf(text, k) ==
  LET nl == {e \in 1..(k - 1) : text[e] = "\n"}
  IN  IF nl = {} THEN k ELSE k - (CHOOSE e \in nl : \A d \in nl : d <= e)
PosOf(text, k) == <<LineOf(text, k), ColOf(text, k)>>

\* pos is the place of a character c of the text.
IsPlaceOf(text, pos, c) ==
  \E k \in 1..Len(text) : text[k] = c /\ PosOf(text, k) = pos

\* Number of characters of the file the scan has gone past.
Offset == Len(Flatten(SubSeq(lines, 1, i))) + j
Seen == SubSeq(file, 1, Offset)

PosLess(p, q) == p[1] < q[1] \/ (p[1] = q[1] /\ p[2] < q[2])

\* C1: when the scan has finished, the text is reported balanced exactly
\* when no extra closing brace and no unclosed brace was reported.
C1_BalancedIffNoDefects ==
  pc = "done" =>
    (balanced(output) <=> (extraClosing(output) = <<>> /\ unclosed(output) = <<>>))

\* C2: a '}' met with an empty stack prints an extra-closing-brace line with
\* the character's 1-based line and column, leaves the stack empty and goes
\* on to the next character; a '}' met with a non-empty stack prints nothing.
C2_ExtraClosingIsRecorded ==
  [][(InLine /\ char = "}") =>
       IF stack = <<>>
       THEN /\ output' = Append(output, <<"extra", LineOf(file, Offset + 1),
                                                   ColOf(file, Offset + 1)>>)
            /\ stack' = <<>>
            /\ pc' = "scan"
            /\ i' = i
            /\ j' = j + 1
            /\ lines' = lines
       ELSE output' = output]_vars

C2_Witness ==
  /\ pc = "scan"
  /\ extraClosing(output) = <<(<<1, 2>>)>>
  /\ stack # <<>>
  /\ matched > 0

\* C3: when the scan has finished, the unclosed braces reported are exactly
\* the positions left on the stack, in the order pushed, each the place of a
\* '{' and each strictly after the one before it (line, then column).
C3_UnclosedInPushOrder ==
  pc = "done" =>
    /\ unclosed(output) = stack
    /\ \A k \in 1..Len(stack) : IsPlaceOf(file, unclosed(output)[k], "{")
    /\ \A a, b \in 1..Len(unclosed(output)) :
         a < b => PosLess(unclosed(output)[a], unclosed(output)[b])

C3_Witness ==
  /\ pc = "done"
  /\ Len(unclosed(output)) >= 2
  /\ unclosed(output)[1][1] < unclosed(output)[2][1]
  /\ matched > 0

\* C4: when the scan has finished, the '{' of the file are the unclosed ones
\* plus the matched ones, the '}' are the matched ones plus the extra ones;
\* and a matched '}' takes exactly one position off the stack.
C4_BraceCounts ==
  /\ [](pc = "done" =>
          /\ CountChar(file, "{") = Len(unclosed(output)) + matched
          /\ CountChar(file, "}") = matched + Len(extraClosing(output)))
  /\ [][matched' = matched + 1 => Len(stack') = Len(stack) - 1]_vars

C4_Witness ==
  /\ pc = "done"
  /\ matched >= 2
  /\ Len(unclosed(output)) >= 1
  /\ Len(extraClosing(output)) >= 1

\* C5: during the scan the depth of the stack is the number of '{' gone past
\* minus the number of '}' gone past that were matched, the matched '}' being
\* those gone past that were not reported as extra; it is never negative.
C5_DepthIsUnmatchedOpeners ==
  pc = "scan" =>
    /\ Len(stack) = CountChar(Seen, "{") - matched
    /\ matched = CountChar(Seen, "}") - Len(extraClosing(output))
    /\ CountChar(Seen, "{") - matched >= 0

C5_Witness ==
  /\ pc = "scan"
  /\ Len(stack) >= 2
  /\ matched >= 1
  /\ extraClosing(output) # <<>>

\* The (i, j) of every character of a text, in order.
AllIndexPairs(text) ==
  [k \in 1..Len(text) |-> <<LineOf(text, k) - 1, ColOf(text, k) - 1>>]

\* C6: a started scan reaches the final report; it never ends in an error;
\* when it has finished it has visited every character once, in order; and
\* the empty file is reported balanced with nothing else printed.
C6_ScanCompletes ==
  /\ [](pc # "error")
  /\ [](pc = "done" => visited = AllIndexPairs(file))
  /\ []((pc = "done" /\ file = <<>>) => output = <<(<<"balanced">>)>>)
  /\ (pc = "scan") ~> (pc = "done")

C6_Witness ==
  /\ pc = "done"
  /\ file = <<>>
  /\ visited = <<>>
  /\ balanced(output)

\* C7: a second run on the same file prints what the first printed; every
\* run starts with an empty stack; the scan changes neither the lines it
\* read nor the file.
C7_RerunPrintsTheSame ==
  /\ []((pc = "done" /\ run >= 2) => output = prevOutput)
  /\ [](pc \in {"scan", "done"} => (lines = readlines(file) /\ file = startFile))
  /\ [][(pc # "scan" /\ pc' = "scan") => stack' = <<>>]_vars

C7_Witness ==
  /\ pc = "done"
  /\ run = 2
  /\ unclosed(output) # <<>>
  /\ extraClosing(output) # <<>>
  /\ output = prevOutput

\* The single line "{ { } ".
Scenario5 == <<"{", " ", "{", " ", "}", " ">>

\* C8: a matched '}' removes the last position pushed and no other; every
\* position pushed is the 1-based place of the '{' met, every position on
\* the stack is the place of a '{' and every extra position the place of a
\* '}'; for "{ { } " the one unclosed brace reported is (1, 1), with no extra.
C8_LastInFirstOut ==
  /\ [][matched' = matched + 1 =>
          /\ stack # <<>>
          /\ stack' = [k \in 1..(Len(stack) - 1) |-> stack[k]]]_vars
  /\ [][(InLine /\ char = "{") =>
          stack' = stack \o <<PosOf(file, Offset + 1)>>]_vars
  /\ [](pc \in {"scan", "done"} =>
          /\ \A k \in 1..Len(stack) : IsPlaceOf(file, stack[k], "{")
          /\ \A k \in 1..Len(extraClosing(output)) :
               IsPlaceOf(file, extraClosing(output)[k], "}"))
  /\ []((pc = "done" /\ file = Scenario5) =>
          (unclosed(output) = <<(<<1, 1>>)>> /\ extraClosing(output) = <<>>))

C8_Witness ==
  /\ pc = "done"
  /\ file = Scenario5
  /\ output = <<(<<"count", 1>>), (<<"unclosed", 1, 1>>)>>
  /\ matched = 1

(***************************************************************************)
(* fix_app_context.py                                                      *)
(***************************************************************************)
broken_block ==
  <<" "," ","}",","," ","[","]",")",";","\n">> \o
  <<"}","\n">> \o
  <<" "," ","}",","," ","[","s","e","l","e","c","t","e","d","L","a","n","g","u","a","g","e",","," ","s","n","i","p","p","e","t","L","e","n","g","t","h",","," ","s","n","i","p","p","e","t","L","e","v","e","l",","," ","i","s","L","o","a","d","i","n","g","S","n","i","p","p","e","t",","," ","p","r","a","c","t","i","c","e","M","o","d","e",","," ","g","e","n","e","r","a","l","C","o","n","t","e","n","t","T","y","p","e","s","]",")",";">>
replacement_block ==
  <<" "," ","}",","," ","[","]",")",";","\n">> \o
  <<"\n">> \o
  <<" "," ","c","o","n","s","t"," ","f","e","t","c","h","N","e","w","S","n","i","p","p","e","t"," ","="," ","u","s","e","C","a","l","l","b","a","c","k","(","a","s","y","n","c"," ","(","m","o","d","e",":"," ","'","c","o","d","e","'"," ","|"," ","'","g","e","n","e","r","a","l","'"," ","|"," ","'","t","a","r","g","e","t","e","d","'"," ","="," ","p","r","a","c","t","i","c","e","M","o","d","e",","," ","t","a","r","g","e","t","e","d","K","e","y","s","O","v","e","r","r","i","d","e","?",":"," ","s","t","r","i","n","g","[","]",")"," ","=",">"," ","{","\n">> \o
  <<" "," "," "," ","i","f"," ","(","i","s","L","o","a","d","i","n","g","S","n","i","p","p","e","t",")"," ","r","e","t","u","r","n",";","\n">> \o
  <<"\n">> \o
  <<" "," "," "," ","s","e","t","I","s","L","o","a","d","i","n","g","S","n","i","p","p","e","t","(","t","r","u","e",")",";","\n">> \o
  <<" "," "," "," ","s","e","t","S","n","i","p","p","e","t","(","'","'",")",";","\n">> \o
  <<" "," "," "," ","s","e","t","S","n","i","p","p","e","t","E","r","r","o","r","(","n","u","l","l",")",";","\n">> \o
  <<" "," "," "," ","s","e","t","I","s","C","u","s","t","o","m","S","e","s","s","i","o","n","(","f","a","l","s","e",")",";","\n">> \o
  <<" "," "," "," ","\n">> \o
  <<" "," "," "," ","/","/"," ","C","l","e","a","r"," ","t","a","r","g","e","t","e","d"," ","k","e","y","s"," ","i","f"," ","s","w","i","t","c","h","i","n","g"," ","a","w","a","y"," ","f","r","o","m"," ","t","a","r","g","e","t","e","d"," ","m","o","d","e",","," ","u","n","l","e","s","s"," ","w","e"," ","a","r","e"," ","s","t","a","r","t","i","n","g"," ","a"," ","n","e","w"," ","t","a","r","g","e","t","e","d"," ","s","e","s","s","i","o","n","\n">> \o
  <<" "," "," "," ","i","f"," ","(","m","o","d","e"," ","!","=","="," ","'","t","a","r","g","e","t","e","d","'",")"," ","{","\n">> \o
  <<" "," "," "," "," "," "," "," ","s","e","t","C","u","r","r","e","n","t","T","a","r","g","e","t","e","d","K","e","y","s","(","[","]",")",";","\n">> \o
  <<" "," "," "," ","}","\n">> \o
  <<"\n">> \o
  <<" "," "," "," ","t","r","y"," ","{","\n">> \o
  <<" "," "," "," "," "," ","l","e","t"," ","n","e","w","S","n","i","p","p","e","t"," ","="," ","'","'",";","\n">> \o
  <<" "," "," "," "," "," ","i","f"," ","(","m","o","d","e"," ","=","=","="," ","'","c","o","d","e","'",")"," ","{","\n">> \o
  <<" "," "," "," "," "," "," "," ","n","e","w","S","n","i","p","p","e","t"," ","="," ","a","w","a","i","t"," ","g","e","n","e","r","a","t","e","C","o","d","e","S","n","i","p","p","e","t","(","s","e","l","e","c","t","e","d","L","a","n","g","u","a","g","e",","," ","s","n","i","p","p","e","t","L","e","n","g","t","h",","," ","s","n","i","p","p","e","t","L","e","v","e","l",")",";","\n">> \o
  <<" "," "," "," "," "," ","}"," ","e","l","s","e"," ","i","f"," ","(","m","o","d","e"," ","=","=","="," ","'","t","a","r","g","e","t","e","d","'",")"," ","{","\n">> \o
  <<" "," "," "," "," "," "," "," "," ","c","o","n","s","t"," ","k","e","y","s"," ","="," ","t","a","r","g","e","t","e","d","K","e","y","s","O","v","e","r","r","i","d","e"," ","|","|"," ","c","u","r","r","e","n","t","T","a","r","g","e","t","e","d","K","e","y","s",";","\n">> \o
  <<" "," "," "," "," "," "," "," "," ","i","f"," ","(","k","e","y","s",".","l","e","n","g","t","h"," ",">"," ","0",")"," ","{","\n">> \o
  <<" "," "," "," "," "," "," "," "," "," "," "," "," ","n","e","w","S","n","i","p","p","e","t"," ","="," ","a","w","a","i","t"," ","g","e","n","e","r","a","t","e","T","a","r","g","e","t","e","d","C","o","d","e","S","n","i","p","p","e","t","(","s","e","l","e","c","t","e","d","L","a","n","g","u","a","g","e",","," ","k","e","y","s",","," ","s","n","i","p","p","e","t","L","e","n","g","t","h",","," ","s","n","i","p","p","e","t","L","e","v","e","l",")",";","\n">> \o
  <<" "," "," "," "," "," "," "," "," ","}"," ","e","l","s","e"," ","{","\n">> \o
  <<" "," "," "," "," "," "," "," "," "," "," "," "," ","/","/"," ","F","a","l","l","b","a","c","k"," ","i","f"," ","n","o"," ","k","e","y","s","\n">> \o
  <<" "," "," "," "," "," "," "," "," "," "," "," "," ","n","e","w","S","n","i","p","p","e","t"," ","="," ","a","w","a","i","t"," ","g","e","n","e","r","a","t","e","C","o","d","e","S","n","i","p","p","e","t","(","s","e","l","e","c","t","e","d","L","a","n","g","u","a","g","e",","," ","s","n","i","p","p","e","t","L","e","n","g","t","h",","," ","s","n","i","p","p","e","t","L","e","v","e","l",")",";","\n">> \o
  <<" "," "," "," "," "," "," "," "," ","}","\n">> \o
  <<" "," "," "," "," "," ","}"," ","e","l","s","e"," ","{","\n">> \o
  <<" "," "," "," "," "," "," "," ","n","e","w","S","n","i","p","p","e","t"," ","="," ","a","w","a","i","t"," ","g","e","n","e","r","a","t","e","G","e","n","e","r","a","l","S","n","i","p","p","e","t","(","s","n","i","p","p","e","t","L","e","n","g","t","h",","," ","s","n","i","p","p","e","t","L","e","v","e","l",","," ","g","e","n","e","r","a","l","C","o","n","t","e","n","t","T","y","p","e","s",")",";","\n">> \o
  <<" "," "," "," "," "," ","}","\n">> \o
  <<" "," "," "," "," "," ","s","e","t","S","n","i","p","p","e","t","(","c","o","n","v","e","r","t","S","p","a","c","e","s","T","o","T","a","b","s","(","n","e","w","S","n","i","p","p","e","t",")",")",";","\n">> \o
  <<" "," "," "," "," "," ","s","e","t","S","e","s","s","i","o","n","R","e","s","e","t","K","e","y","(","p","r","e","v"," ","=",">"," ","p","r","e","v"," ","+"," ","1",")",";","\n">> \o
  <<" "," "," "," ","}"," ","c","a","t","c","h"," ","(","e","r","r",")"," ","{","\n">> \o
  <<" "," "," "," "," "," ","c","o","n","s","t"," ","e","r","r","o","r","M","e","s","s","a","g","e"," ","="," ","e","r","r"," ","i","n","s","t","a","n","c","e","o","f"," ","E","r","r","o","r"," ","?"," ","e","r","r",".","m","e","s","s","a","g","e"," ",":"," ","'","F","a","i","l","e","d"," ","t","o"," ","g","e","n","e","r","a","t","e"," ","s","n","i","p","p","e","t","."," ","P","l","e","a","s","e"," ","t","r","y"," ","a","g","a","i","n",".","'",";","\n">> \o
  <<" "," "," "," "," "," ","s","e","t","S","n","i","p","p","e","t","E","r","r","o","r","(","e","r","r","o","r","M","e","s","s","a","g","e",")",";","\n">> \o
  <<" "," "," "," "," "," ","s","e","t","S","e","s","s","i","o","n","R","e","s","e","t","K","e","y","(","p","r","e","v"," ","=",">"," ","p","r","e","v"," ","+"," ","1",")",";","\n">> \o
  <<" "," "," "," "," "," ","c","o","n","s","o","l","e",".","e","r","r","o","r","(","e","r","r",")",";","\n">> \o
  <<" "," "," "," ","}"," ","f","i","n","a","l","l","y"," ","{","\n">> \o
  <<" "," "," "," "," "," ","s","e","t","I","s","L","o","a","d","i","n","g","S","n","i","p","p","e","t","(","f","a","l","s","e",")",";","\n">> \o
  <<" "," "," "," ","}","\n">> \o
  <<" "," ","}",","," ","[","s","e","l","e","c","t","e","d","L","a","n","g","u","a","g","e",","," ","s","n","i","p","p","e","t","L","e","n","g","t","h",","," ","s","n","i","p","p","e","t","L","e","v","e","l",","," ","i","s","L","o","a","d","i","n","g","S","n","i","p","p","e","t",","," ","p","r","a","c","t","i","c","e","M","o","d","e",","," ","g","e","n","e","r","a","l","C","o","n","t","e","n","t","T","y","p","e","s",","," ","c","u","r","r","e","n","t","T","a","r","g","e","t","e","d","K","e","y","s","]",")",";">>
start_marker ==
  <<"c","o","n","s","t"," ","s","e","t","R","e","q","u","e","s","t","F","o","c","u","s","O","n","C","o","d","e","C","a","l","l","b","a","c","k">>
\* content[idx:idx+300]
ContextLen == 300

\* pat occurs in text at index k (1-based).
MatchAt(text, pat, k) ==
  /\ k + Len(pat) - 1 <= Len(text)
  /\ \A m \in 1..Len(pat) : text[k + m - 1] = pat[m]

\* pat in text
Contains(text, pat) == \E k \in 1..Len(text) : MatchAt(text, pat, k)

\* text.find(pat): the 0-based index of the first occurrence, or -1.
Find(text, pat) ==
  IF Contains(text, pat)
  THEN Min({k \in 1..Len(text) : MatchAt(text, pat, k)}) - 1
  ELSE -1

\* text.replace(old, new) for a non-empty old: every occurrence, taken from
\* the left and never overlapping the one before, becomes new.
ReplaceFirstOnly(text, old, new) ==
  LET idx == Find(text, old)
  IN  IF idx = -1 THEN text
      ELSE SubSeq(text, 1, idx) \o new \o SubSeq(text, idx + Len(old) + 1, Len(text))
RECURSIVE Replace(_, _, _)
Replace(text, old, new) ==
  LET idx == Find(text, old)
  IN  IF idx = -1 THEN text
      ELSE SubSeq(text, 1, idx) \o new \o
           Replace(SubSeq(text, idx + Len(old) + 1, Len(text)), old, new)

\* text[a:a+n] for 0 <= a
Slice(text, a, n) ==
  SubSeq(text, a + 1, IF a + n < Len(text) THEN a + n ELSE Len(text))

\* The files the script is run on: up to MaxSegs pieces, each the broken
\* block, one of its three lines, the start marker or some other character.
FixPieces ==
  { broken_block,
    SubSeq(broken_block, 1, 10),
    SubSeq(broken_block, 11, 12),
    SubSeq(broken_block, 13, Len(broken_block)),
    start_marker,
    <<"x">> }

FixFiles == {Flatten(ps) : ps \in UNION {[1..n -> FixPieces] : n \in 0..MaxSegs}}

InitFix ==
  /\ file \in FixFiles
  /\ lines = <<>>
  /\ content = <<>>
  /\ stack = <<>>
  /\ i = 0
  /\ j = 0
  /\ output = <<>>
  /\ pc = "start"
  /\ run = 0
  /\ prevOutput = <<>>
  /\ matched = 0
  /\ visited = <<>>
  /\ startFile = file
  /\ writes = 0

\* with open(file_path, 'r') as f: content = f.read()
FixRead ==
  /\ pc \in {"start", "done"}
  /\ run < MaxRuns
  /\ run' = run + 1
  /\ content' = file
  /\ prevOutput' = output
  /\ output' = <<>>
  /\ startFile' = file
  /\ writes' = 0
  /\ pc' = "check"
  /\ UNCHANGED <<file, lines, stack, i, j, matched, visited>>

\* if broken_block in content: replace, write the file, report success.
FixReplace ==
  /\ pc = "check"
  /\ Contains(content, broken_block)
  /\ LET new_content == Replace(content, broken_block, replacement_block)
     IN  file' = new_content
  /\ writes' = writes + 1
  /\ output' = Append(output, <<"fixed">>)
  /\ pc' = "done"
  /\ UNCHANGED <<lines, content, stack, i, j, run, prevOutput, matched, visited,
                 startFile>>

\* else: report the failure and, when the start marker is found, print the
\* 300 characters from it on.
FixNotFound ==
  /\ pc = "check"
  /\ ~Contains(content, broken_block)
  /\ LET idx == Find(content, start_marker)
     IN  output' = output \o <<(<<"notfound">>)>> \o
                   (IF idx # -1
                    THEN <<(<<"context", Slice(content, idx, ContextLen)>>)>>
                    ELSE <<>>)
  /\ pc' = "done"
  /\ UNCHANGED <<file, lines, content, stack, i, j, run, prevOutput, matched,
                 visited, startFile, writes>>

NextFix == FixRead \/ FixReplace \/ FixNotFound

SpecFix == InitFix /\ [][NextFix]_vars

\* Two occurrences of pat in text.
OccursTwice(text, pat) ==
  \E k \in 1..Len(text) :
    /\ MatchAt(text, pat, k)
    /\ \E m \in (k + 1)..Len(text) : MatchAt(text, pat, m)

\* C9: the script writes the file only when the broken block occurs in it;
\* when the block does not occur the file is left as it was; when it occurs
\* the file is written once and holds no broken block afterwards, so that a
\* second run writes nothing and leaves the file as the first run left it.
C9_FixWritesOnlyWhenBroken ==
  /\ [][(writes' > writes \/ file' # file) =>
          (Contains(file, broken_block) /\ writes' = writes + 1)]_vars
  /\ []((pc = "done" /\ ~Contains(startFile, broken_block)) =>
          (file = startFile /\ writes = 0))
  /\ []((pc = "done" /\ Contains(startFile, broken_block)) =>
          (writes = 1 /\ ~Contains(file, broken_block)))
  /\ []((pc = "done" /\ run >= 2) => (file = startFile /\ writes = 0))

C9_Witness ==
  /\ pc = "done"
  /\ run = 2
  /\ writes = 0
  /\ file = startFile
  /\ OccursTwice(file, replacement_block)
  /\ prevOutput = <<(<<"fixed">>)>>

(***************************************************************************)
(* restore_app_context.py                                                  *)
(***************************************************************************)
new_code ==
  <<" "," ","c","o","n","s","t"," ","f","e","t","c","h","N","e","w","S","n","i","p","p","e","t"," ","="," ","u","s","e","C","a","l","l","b","a","c","k","(","a","s","y","n","c"," ","(","m","o","d","e",":"," ","'","c","o","d","e","'"," ","|"," ","'","g","e","n","e","r","a","l","'"," ","|"," ","'","t","a","r","g","e","t","e","d","'"," ","="," ","p","r","a","c","t","i","c","e","M","o","d","e",","," ","t","a","r","g","e","t","e","d","K","e","y","s","O","v","e","r","r","i","d","e","?",":"," ","s","t","r","i","n","g","[","]",")"," ","=",">"," ","{","\n">> \o
  <<" "," "," "," ","i","f"," ","(","i","s","L","o","a","d","i","n","g","S","n","i","p","p","e","t",")"," ","r","e","t","u","r","n",";","\n">> \o
  <<"\n">> \o
  <<" "," "," "," ","s","e","t","I","s","L","o","a","d","i","n","g","S","n","i","p","p","e","t","(","t","r","u","e",")",";","\n">> \o
  <<" "," "," "," ","s","e","t","S","n","i","p","p","e","t","(","'","'",")",";","\n">> \o
  <<" "," "," "," ","s","e","t","S","n","i","p","p","e","t","E","r","r","o","r","(","n","u","l","l",")",";","\n">> \o
  <<" "," "," "," ","s","e","t","I","s","C","u","s","t","o","m","S","e","s","s","i","o","n","(","f","a","l","s","e",")",";","\n">> \o
  <<" "," "," "," ","\n">> \o
  <<" "," "," "," ","/","/"," ","C","l","e","a","r"," ","t","a","r","g","e","t","e","d"," ","k","e","y","s"," ","i","f"," ","s","w","i","t","c","h","i","n","g"," ","a","w","a","y"," ","f","r","o","m"," ","t","a","r","g","e","t","e","d"," ","m","o","d","e",","," ","u","n","l","e","s","s"," ","w","e"," ","a","r","e"," ","s","t","a","r","t","i","n","g"," ","a"," ","n","e","w"," ","t","a","r","g","e","t","e","d"," ","s","e","s","s","i","o","n","\n">> \o
  <<" "," "," "," ","i","f"," ","(","m","o","d","e"," ","!","=","="," ","'","t","a","r","g","e","t","e","d","'",")"," ","{","\n">> \o
  <<" "," "," "," "," "," "," "," ","s","e","t","C","u","r","r","e","n","t","T","a","r","g","e","t","e","d","K","e","y","s","(","[","]",")",";","\n">> \o
  <<" "," "," "," ","}","\n">> \o
  <<"\n">> \o
  <<" "," "," "," ","t","r","y"," ","{","\n">> \o
  <<" "," "," "," "," "," ","l","e","t"," ","n","e","w","S","n","i","p","p","e","t"," ","="," ","'","'",";","\n">> \o
  <<" "," "," "," "," "," ","i","f"," ","(","m","o","d","e"," ","=","=","="," ","'","c","o","d","e","'",")"," ","{","\n">> \o
  <<" "," "," "," "," "," "," "," ","n","e","w","S","n","i","p","p","e","t"," ","="," ","a","w","a","i","t"," ","g","e","n","e","r","a","t","e","C","o","d","e","S","n","i","p","p","e","t","(","s","e","l","e","c","t","e","d","L","a","n","g","u","a","g","e",","," ","s","n","i","p","p","e","t","L","e","n","g","t","h",","," ","s","n","i","p","p","e","t","L","e","v","e","l",")",";","\n">> \o
  <<" "," "," "," "," "," ","}"," ","e","l","s","e"," ","i","f"," ","(","m","o","d","e"," ","=","=","="," ","'","t","a","r","g","e","t","e","d","'",")"," ","{","\n">> \o
  <<" "," "," "," "," "," "," "," "," ","c","o","n","s","t"," ","k","e","y","s"," ","="," ","t","a","r","g","e","t","e","d","K","e","y","s","O","v","e","r","r","i","d","e"," ","|","|"," ","c","u","r","r","e","n","t","T","a","r","g","e","t","e","d","K","e","y","s",";","\n">> \o
  <<" "," "," "," "," "," "," "," "," ","i","f"," ","(","k","e","y","s",".","l","e","n","g","t","h"," ",">"," ","0",")"," ","{","\n">> \o
  <<" "," "," "," "," "," "," "," "," "," "," "," "," ","n","e","w","S","n","i","p","p","e","t"," ","="," ","a","w","a","i","t"," ","g","e","n","e","r","a","t","e","T","a","r","g","e","t","e","d","C","o","d","e","S","n","i","p","p","e","t","(","s","e","l","e","c","t","e","d","L","a","n","g","u","a","g","e",","," ","k","e","y","s",","," ","s","n","i","p","p","e","t","L","e","n","g","t","h",","," ","s","n","i","p","p","e","t","L","e","v","e","l",")",";","\n">> \o
  <<" "," "," "," "," "," "," "," "," ","}"," ","e","l","s","e"," ","{","\n">> \o
  <<" "," "," "," "," "," "," "," "," "," "," "," "," ","/","/"," ","F","a","l","l","b","a","c","k"," ","i","f"," ","n","o"," ","k","e","y","s","\n">> \o
  <<" "," "," "," "," "," "," "," "," "," "," "," "," ","n","e","w","S","n","i","p","p","e","t"," ","="," ","a","w","a","i","t"," ","g","e","n","e","r","a","t","e","C","o","d","e","S","n","i","p","p","e","t","(","s","e","l","e","c","t","e","d","L","a","n","g","u","a","g","e",","," ","s","n","i","p","p","e","t","L","e","n","g","t","h",","," ","s","n","i","p","p","e","t","L","e","v","e","l",")",";","\n">> \o
  <<" "," "," "," "," "," "," "," "," ","}","\n">> \o
  <<" "," "," "," "," "," ","}"," ","e","l","s","e"," ","{","\n">> \o
  <<" "," "," "," "," "," "," "," ","n","e","w","S","n","i","p","p","e","t"," ","="," ","a","w","a","i","t"," ","g","e","n","e","r","a","t","e","G","e","n","e","r","a","l","S","n","i","p","p","e","t","(","s","n","i","p","p","e","t","L","e","n","g","t","h",","," ","s","n","i","p","p","e","t","L","e","v","e","l",","," ","g","e","n","e","r","a","l","C","o","n","t","e","n","t","T","y","p","e","s",")",";","\n">> \o
  <<" "," "," "," "," "," ","}","\n">> \o
  <<" "," "," "," "," "," ","s","e","t","S","n","i","p","p","e","t","(","c","o","n","v","e","r","t","S","p","a","c","e","s","T","o","T","a","b","s","(","n","e","w","S","n","i","p","p","e","t",")",")",";","\n">> \o
  <<" "," "," "," "," "," ","s","e","t","S","e","s","s","i","o","n","R","e","s","e","t","K","e","y","(","p","r","e","v"," ","=",">"," ","p","r","e","v"," ","+"," ","1",")",";","\n">> \o
  <<" "," "," "," ","}"," ","c","a","t","c","h"," ","(","e","r","r",")"," ","{","\n">> \o
  <<" "," "," "," "," "," ","c","o","n","s","t"," ","e","r","r","o","r","M","e","s","s","a","g","e"," ","="," ","e","r","r"," ","i","n","s","t","a","n","c","e","o","f"," ","E","r","r","o","r"," ","?"," ","e","r","r",".","m","e","s","s","a","g","e"," ",":"," ","'","F","a","i","l","e","d"," ","t","o"," ","g","e","n","e","r","a","t","e"," ","s","n","i","p","p","e","t","."," ","P","l","e","a","s","e"," ","t","r","y"," ","a","g","a","i","n",".","'",";","\n">> \o
  <<" "," "," "," "," "," ","s","e","t","S","n","i","p","p","e","t","E","r","r","o","r","(","e","r","r","o","r","M","e","s","s","a","g","e",")",";","\n">> \o
  <<" "," "," "," "," "," ","s","e","t","S","e","s","s","i","o","n","R","e","s","e","t","K","e","y","(","p","r","e","v"," ","=",">"," ","p","r","e","v"," ","+"," ","1",")",";","\n">> \o
  <<" "," "," "," "," "," ","c","o","n","s","o","l","e",".","e","r","r","o","r","(","e","r","r",")",";","\n">> \o
  <<" "," "," "," ","}"," ","f","i","n","a","l","l","y"," ","{","\n">> \o
  <<" "," "," "," "," "," ","s","e","t","I","s","L","o","a","d","i","n","g","S","n","i","p","p","e","t","(","f","a","l","s","e",")",";","\n">> \o
  <<" "," "," "," ","}","\n">> \o
  <<" "," ","}",","," ","[","s","e","l","e","c","t","e","d","L","a","n","g","u","a","g","e",","," ","s","n","i","p","p","e","t","L","e","n","g","t","h",","," ","s","n","i","p","p","e","t","L","e","v","e","l",","," ","i","s","L","o","a","d","i","n","g","S","n","i","p","p","e","t",","," ","p","r","a","c","t","i","c","e","M","o","d","e",","," ","g","e","n","e","r","a","l","C","o","n","t","e","n","t","T","y","p","e","s",","," ","c","u","r","r","e","n","t","T","a","r","g","e","t","e","d","K","e","y","s","]",")",";","\n">>
\* The literal "}, [selectedLanguage".
SelectedLanguagePrefix ==
  <<"}",","," ","[","s","e","l","e","c","t","e","d","L","a","n","g","u","a","g","e">>
\* The characters str.strip() removes that a decoded source line can hold.
Whitespace == {" ", "\t", "\n", "\r", "\f"}

\* s.strip()
strip(s) ==
  LET keep == {k \in 1..Len(s) : s[k] \notin Whitespace}
  IN  IF keep = {} THEN <<>> ELSE SubSeq(s, Min(keep), Max(keep))

\* s.startswith(p)
startswith(s, p) == Len(p) <= Len(s) /\ SubSeq(s, 1, Len(p)) = p

\* lines[n] for a 0-based n raises IndexError when the list is too short.
InRange(ls, n) == n < Len(ls)
At(ls, n) == ls[n + 1]

\* line_295 = lines[294].strip(), line_296 = lines[295].strip(),
\* line_297 = lines[296].strip()
line_295(ls) == strip(At(ls, 294))
line_296(ls) == strip(At(ls, 295))
line_297(ls) == strip(At(ls, 296))

\* if line_296 == "}" and line_297.startswith("}, [selectedLanguage"):
IsBrokenBlock(ls) ==
  /\ line_296(ls) = <<"}">>
  /\ startswith(line_297(ls), SelectedLanguagePrefix)

\* lines[295] = ""; lines[296] = new_code + "\n"
ApplyFixOneBased(ls) ==
  [k \in 1..Len(ls) |->
     IF k = 296 + 1 THEN <<>>
     ELSE IF k = 297 + 1 THEN new_code \o <<"\n">> ELSE ls[k]]
ApplyFix(ls) ==
  [ls EXCEPT ![295 + 1] = <<>>, ![296 + 1] = new_code \o <<"\n">>]

\* The first 294 lines of the files the script is run on.
HeadLine(k) ==
  IF k % 3 = 0 THEN <<"}", "\n">>
  ELSE IF k % 3 = 1 THEN <<" ", " ", "x", "\n">>
  ELSE <<"\n">>
HeadLines == Flatten([k \in 1..294 |-> HeadLine(k)])

\* What lines 296 and 297 may be: a lone brace with or without blanks
\* around it, the dependency-list line of the broken block, the prefix cut
\* short by a character, and an empty line.  The other lines from line 295
\* on are a lone brace or empty.
TailPieces ==
  { <<"}">>,
    <<" ", " ", "}", " ">>,
    SubSeq(broken_block, 13, Len(broken_block)),
    SubSeq(SelectedLanguagePrefix, 1, Len(SelectedLanguagePrefix) - 1),
    <<>> }
OtherPieces == { <<"}">>, <<>> }
TailLists(n) ==
  {ps \in [1..n -> TailPieces] : \A k \in 1..n : k \notin {2, 3} => ps[k] \in OtherPieces}

\* The files the script is run on: the 294 lines and up to MaxTail more,
\* the last one with or without its line terminator.
RestoreFiles ==
  { HeadLines \o Flatten([k \in 1..Len(t[1]) |->
                            IF k = Len(t[1]) /\ ~t[2] THEN t[1][k]
                            ELSE t[1][k] \o <<"\n">>])
      : t \in UNION {TailLists(n) \X BOOLEAN : n \in 0..MaxTail} }

InitRestore ==
  /\ file \in RestoreFiles
  /\ lines = <<>>
  /\ content = <<>>
  /\ stack = <<>>
  /\ i = 0
  /\ j = 0
  /\ output = <<>>
  /\ pc = "start"
  /\ run = 0
  /\ prevOutput = <<>>
  /\ matched = 0
  /\ visited = <<>>
  /\ startFile = file
  /\ writes = 0

\* with open(file_path, 'r') as f: lines = f.readlines()
RestoreRead ==
  /\ pc \in {"start", "done"}
  /\ run < MaxRuns
  /\ run' = run + 1
  /\ lines' = readlines(file)
  /\ prevOutput' = output
  /\ output' = <<>>
  /\ startFile' = file
  /\ writes' = 0
  /\ pc' = "verify"
  /\ UNCHANGED <<file, content, stack, i, j, matched, visited>>

\* The three stripped lines are taken and printed; a list of fewer than 297
\* lines raises IndexError at the first missing one, which ends the script.
RestoreVerify ==
  /\ pc = "verify"
  /\ IF InRange(lines, 294) /\ InRange(lines, 295) /\ InRange(lines, 296)
     THEN /\ output' = output \o <<(<<"Line 295", line_295(lines)>>),
                                   (<<"Line 296", line_296(lines)>>),
                                   (<<"Line 297", line_297(lines)>>)>>
          /\ pc' = "decide"
     ELSE /\ pc' = "error"
          /\ UNCHANGED output
  /\ UNCHANGED <<file, lines, content, stack, i, j, run, prevOutput, matched,
                 visited, startFile, writes>>

\* The broken block is found: the two lines are replaced in the list and the
\* list is written back.
RestoreApply ==
  /\ pc = "decide"
  /\ IsBrokenBlock(lines)
  /\ lines' = ApplyFix(lines)
  /\ file' = writelines(lines')
  /\ writes' = writes + 1
  /\ output' = output \o <<(<<"found">>), (<<"restored">>)>>
  /\ pc' = "done"
  /\ UNCHANGED <<content, stack, i, j, run, prevOutput, matched, visited,
                 startFile>>

\* else: print("Context mismatch. Aborting.")
RestoreAbort ==
  /\ pc = "decide"
  /\ ~IsBrokenBlock(lines)
  /\ output' = Append(output, <<"mismatch">>)
  /\ pc' = "done"
  /\ UNCHANGED <<file, lines, content, stack, i, j, run, prevOutput, matched,
                 visited, startFile, writes>>

NextRestore == RestoreRead \/ RestoreVerify \/ RestoreApply \/ RestoreAbort

SpecRestore == InitRestore /\ [][NextRestore]_vars

\* Of the lines of a text, line 296 stripped is "}" and line 297 stripped
\* starts with the prefix.
Lines296And297Broken(text) ==
  LET old == readlines(text)
  IN  /\ Len(old) >= 297
      /\ strip(old[296]) = <<"}">>
      /\ startswith(strip(old[297]), SelectedLanguagePrefix)

====
